---- MODULE Spec2Model ----
(***************************************************************************)
(* Model of privacyidea/lib/eventhandler/tokenhandler.py:                  *)
(*   - TokenEventHandler.actions, the catalogue of actions and options,    *)
(*   - TokenEventHandler.do, the dispatch of one action on one event.      *)
(*                                                                         *)
(* Python values are tagged records; a Python str is a tuple of one-       *)
(* character strings, so that lower() and int() work on characters.  A     *)
(* Python dict is a function whose DOMAIN is the set of keys present.      *)
(* The token library is outside this file: every call do() makes to it is  *)
(* appended to the call log `calls` with the arguments the code passes.    *)
(***************************************************************************)
EXTENDS Integers, Sequences, FiniteSets, TLC

VARIABLES
    action,       \* do(): the action name handed in by the framework
    all_data,     \* do(): request.all_data
    content,      \* do(): json.loads(response.data)
    audit_data,   \* do(): g.audit_object.audit_data
    handler_def,  \* do(): options["handler_def"]
    pc,           \* "idle" before do() runs on the event, "done" after
    calls,        \* collaborator calls issued by do(), in order
    ret,          \* "pending", "True" (do returned True) or "raised"
    exc,          \* the exception that left do(), "none" if it returned
    realms,       \* the realm configuration read by get_realms()
    token_types,  \* the token types read by get_token_types()
    returned,     \* what the last read of .actions returned
    op            \* the last operation of the catalogue scenario

vars == <<action, all_data, content, audit_data, handler_def, pc, calls,
          ret, exc, realms, token_types, returned, op>>

dispatchVars == <<action, all_data, content, audit_data, handler_def, pc,
                  calls, ret, exc>>

catalogueVars == <<realms, token_types, returned, op>>

----------------------------------------------------------------------------
(* Bounds *)

\* how many realms / token types exist at the same time in the catalogue runs
MaxRealms == 2

MaxTokenTypes == 2

----------------------------------------------------------------------------
(* Python values *)

PyNone == [t |-> "none"]

PyStr(c) == [t |-> "str", s |-> c]

PyInt(i) == [t |-> "int", n |-> i]

PyBool(v) == [t |-> "bool", b |-> v]

PyList(items) == [t |-> "list", l |-> items]

PyDict(d) == [t |-> "dict", d |-> d]

EmptyDict == <<>>

\* bool(v)
Truthy(v) ==
    CASE v.t = "none" -> FALSE
      [] v.t = "str"  -> Len(v.s) > 0
      [] v.t = "int"  -> v.n # 0
      [] v.t = "bool" -> v.b
      [] v.t = "list" -> Len(v.l) > 0
      [] v.t = "dict" -> DOMAIN v.d # {}
      [] OTHER        -> TRUE

\* a or b
PyOr(a, b) == IF Truthy(a) THEN a ELSE b

IsNumber(v) == v.t \in {"int", "bool"}

NumberOf(v) == IF v.t = "bool" THEN (IF v.b THEN 1 ELSE 0) ELSE v.n

\* a == b : bool is a subclass of int, a str never equals a number
PyEq(a, b) ==
    CASE IsNumber(a) /\ IsNumber(b)   -> NumberOf(a) = NumberOf(b)
      [] a.t = "str" /\ b.t = "str"   -> a.s = b.s
      [] a.t = "none" /\ b.t = "none" -> TRUE
      [] OTHER                        -> FALSE

\* x in [l1, l2, ...]
PyIn(x, list) == \E i \in DOMAIN list : PyEq(x, list[i])

\* d.get(key, default)
Get(d, key, default) == IF key \in DOMAIN d THEN d[key] ELSE default

----------------------------------------------------------------------------
(* str.lower() *)

UpperCase == <<"A","B","C","D","E","F","G","H","I","J","K","L","M",
               "N","O","P","Q","R","S","T","U","V","W","X","Y","Z">>

LowerCase == <<"a","b","c","d","e","f","g","h","i","j","k","l","m",
               "n","o","p","q","r","s","t","u","v","w","x","y","z">>

\* the lower-case letter of every upper-case letter
LowerOf ==
    [c \in {UpperCase[i] : i \in DOMAIN UpperCase} |->
        LowerCase[CHOOSE i \in DOMAIN UpperCase : UpperCase[i] = c]]

LowerChar(c) == IF c \in DOMAIN LowerOf THEN LowerOf[c] ELSE c

lower_identity(s) == s

lower(s) == [i \in DOMAIN s |-> LowerChar(s[i])]

----------------------------------------------------------------------------
(* int() *)

Digits == <<"0","1","2","3","4","5","6","7","8","9">>

IsDigit(c) == \E i \in DOMAIN Digits : Digits[i] = c

DigitValue(c) == (CHOOSE i \in DOMAIN Digits : Digits[i] = c) - 1

RECURSIVE Strip(_)
\* str.strip() for blanks
Strip(s) ==
    IF s = <<>> THEN s
    ELSE IF Head(s) = " " THEN Strip(Tail(s))
    ELSE IF s[Len(s)] = " " THEN Strip(SubSeq(s, 1, Len(s) - 1))
    ELSE s

RECURSIVE DigitsValue(_)
\* the number written by a non-empty string of digits
DigitsValue(s) ==
    IF Len(s) = 1 THEN DigitValue(s[1])
    ELSE 10 * DigitsValue(SubSeq(s, 1, Len(s) - 1)) + DigitValue(s[Len(s)])

AllDigits(s) == s # <<>> /\ \A i \in DOMAIN s : IsDigit(s[i])

\* int(v): [ok |-> TRUE, n |-> the integer] or [ok |-> FALSE, exc |-> error]
int(v) ==
    CASE v.t = "int"  -> [ok |-> TRUE, n |-> v.n]
      [] v.t = "bool" -> [ok |-> TRUE, n |-> NumberOf(v)]
      [] v.t = "str"  ->
           LET body == Strip(v.s)
               signed == body # <<>> /\ Head(body) \in {"+", "-"}
               digits == IF signed THEN Tail(body) ELSE body
           IN  IF AllDigits(digits)
               THEN [ok |-> TRUE,
                     n |-> IF signed /\ Head(body) = "-"
                           THEN 0 - DigitsValue(digits)
                           ELSE DigitsValue(digits)]
               ELSE [ok |-> FALSE, exc |-> "ValueError"]
      [] OTHER        -> [ok |-> FALSE, exc |-> "TypeError"]

----------------------------------------------------------------------------
(* class ACTION_TYPE, class VALIDITY *)

SET_TOKENREALM == <<"s","e","t"," ","t","o","k","e","n","r","e","a","l","m">>

DELETE == <<"d","e","l","e","t","e">>

UNASSIGN == <<"u","n","a","s","s","i","g","n">>

DISABLE == <<"d","i","s","a","b","l","e">>

ENABLE == <<"e","n","a","b","l","e">>

INIT == <<"e","n","r","o","l","l">>

SET_DESCRIPTION == <<"s","e","t"," ","d","e","s","c","r","i","p","t","i","o","n">>

SET_VALIDITY == <<"s","e","t"," ","v","a","l","i","d","i","t","y">>

SET_COUNTWINDOW == <<"s","e","t"," ","c","o","u","n","t","w","i","n","d","o","w">>

SET_TOKENINFO == <<"s","e","t"," ","t","o","k","e","n","i","n","f","o">>

START == "valid from"

END == "valid till"

----------------------------------------------------------------------------
(* TokenEventHandler.do: the steps of one invocation *)

\* a call to a collaborator whose return value the code uses
Lookup(fn, args, result) ==
    [kind |-> "call", fn |-> fn, args |-> args, result |-> result]

\* a call to a collaborator, with the arguments in the order the code gives;
\* do() ignores what it returns
Call(fn, args) == Lookup(fn, args, PyNone)

\* an exception raised inside do() itself (int(), strftime on None, ...)
Raise(e) == [kind |-> "raise", exc |-> e]

\* handler_options = handler_def.get("options", {})
handler_options(hd) == Get(hd, "options", EmptyDict)

serial_detailFirst(r, c, a) ==
    PyOr(PyOr(Get(Get(c, "detail", EmptyDict), "serial", PyNone),
              Get(r, "serial", PyNone)),
         Get(a, "serial", PyNone))

\* serial = request.all_data.get("serial") or
\*          content.get("detail", {}).get("serial") or
\*          g.audit_object.audit_data.get("serial")
serial(r, c, a) ==
    PyOr(PyOr(Get(r, "serial", PyNone),
              Get(Get(c, "detail", EmptyDict), "serial", PyNone)),
         Get(a, "serial", PyNone))

has_serial_notNone(s) == s # PyNone

\* if serial:
has_serial(s) == Truthy(s)

\* the list of actions that need a token
TargetActions ==
    {SET_TOKENREALM, SET_DESCRIPTION, DELETE, DISABLE, ENABLE, UNASSIGN,
     SET_VALIDITY, SET_COUNTWINDOW, SET_TOKENINFO}

\* if action.lower() in [ACTION_TYPE.SET_TOKENREALM, ...]:
requires_serial(act) == lower(act) \in TargetActions

is_init_else(act) == ~ (lower(act) \in TargetActions)

\* if action.lower() == ACTION_TYPE.INIT:
is_init(act) == lower(act) = INIT

\* d.strftime(DATE_FORMAT); d is what parse_date returned
strftime(d) == [t |-> "strftime", d |-> d.v, format |-> "DATE_FORMAT"]

\* what parse_date returns: a datetime, None, or it raises
ParseOutcomes == {[t |-> "datetime", v |-> "d1"], PyNone, [t |-> "raise"]}

\* d = parse_date(x); set_validity_period_xxx(serial, None, d.strftime(..))
\* one sequence of steps for each thing parse_date can return; strftime of
\* None is an AttributeError
validity_steps(fn, s, x) ==
    {<<Lookup("parse_date", <<x>>, d)>>
     \o (CASE d.t = "raise" -> <<>>
           [] d.t = "none"  -> <<Raise("AttributeError")>>
           [] OTHER         -> <<Call(fn, <<s, PyNone, strftime(d)>>)>>)
     : d \in ParseOutcomes}

count_window_default(ho) ==
    LET w == int(Get(ho, "count window", PyInt(50)))
    IN  IF w.ok THEN w ELSE [ok |-> TRUE, n |-> 50]

\* int(handler_options.get("count window", 50))
count_window(ho) == int(Get(ho, "count window", PyInt(50)))

disable_steps_fallthrough(s) ==
    <<Call("enable_token", <<s, PyBool(FALSE)>>),
      Call("enable_token", <<s, PyBool(TRUE)>>)>>

\* enable_token(serial, enable=False)
disable_steps(s) == <<Call("enable_token", <<s, PyBool(FALSE)>>)>>

\* the chain of if/elif under "if serial:": the possible sequences of steps
target_steps(act, ho, s) ==
    LET a == lower(act) IN
    CASE a = SET_TOKENREALM ->
           {<<Call("set_realms",
                   <<s, PyList(<<Get(ho, "realm", PyNone)>>), PyBool(TRUE)>>)>>}
      [] a = DELETE ->
           {<<Call("remove_token", <<s>>)>>}
      [] a = DISABLE ->
           {disable_steps(s)}
      [] a = ENABLE ->
           {<<Call("enable_token", <<s, PyBool(TRUE)>>)>>}
      [] a = UNASSIGN ->
           {<<Call("unassign_token", <<s>>)>>}
      [] a = SET_DESCRIPTION ->
           {<<Call("set_description",
                   <<s, Get(ho, "description", PyStr(<<>>))>>)>>}
      [] a = SET_COUNTWINDOW ->
           LET w == count_window(ho) IN
           IF w.ok
           THEN {<<Call("set_count_window", <<s, PyInt(w.n)>>)>>}
           ELSE {<<Raise(w.exc)>>}
      [] a = SET_TOKENINFO ->
           {<<Call("add_tokeninfo",
                   <<s, Get(ho, "key", PyNone),
                     PyOr(Get(ho, "value", PyNone), PyStr(<<>>))>>)>>}
      [] a = SET_VALIDITY ->
           LET from == IF Truthy(Get(ho, START, PyNone))
                       THEN validity_steps("set_validity_period_start", s,
                                           Get(ho, START, PyNone))
                       ELSE {<<>>}
               till == IF Truthy(Get(ho, END, PyNone))
                       THEN validity_steps("set_validity_period_end", s,
                                           Get(ho, END, PyNone))
                       ELSE {<<>>}
           IN  {f \o t : f \in from, t \in till}
      [] OTHER -> {<<>>}

user_flag_truthy(ho) == Truthy(Get(ho, "user", PyNone))

\* handler_options.get("user") in ["1", 1, True]
user_flag(ho) ==
    PyIn(Get(ho, "user", PyNone), <<PyStr(<<"1">>), PyInt(1), PyBool(TRUE)>>)

\* what self._get_tokenowner(request) returns
Owners == {[t |-> "user", login |-> "alice"], [t |-> "user", login |-> ""]}

\* the body of "if action.lower() == ACTION_TYPE.INIT:": one sequence of
\* steps for each owner the lookup can return
init_steps(ho) ==
    LET params == ("type" :> Get(ho, "tokentype", PyNone))
                  @@ ("genkey" :> PyInt(1))
                  @@ ("realm" :> Get(ho, "realm", PyStr(<<>>)))
    IN  IF user_flag(ho)
        THEN {<<Lookup("_get_tokenowner", <<[t |-> "request"]>>, user),
                Call("init_token", <<PyDict(params), user>>)>>
              : user \in Owners}
        ELSE {<<Call("init_token", <<PyDict(params), PyNone>>)>>}

\* the two top-level if statements of do(), one after the other
steps(act, r, c, a, hd) ==
    LET target == IF requires_serial(act) /\ has_serial(serial(r, c, a))
                  THEN target_steps(act, handler_options(hd), serial(r, c, a))
                  ELSE {<<>>}
        init == IF is_init(act) THEN init_steps(handler_options(hd))
                ELSE {<<>>}
    IN  {t \o i : t \in target, i \in init}

\* the calls that change or create a token (all but the two lookups)
IsMutation(fn) == fn \notin {"_get_tokenowner", "parse_date"}

\* the entry of the call log for step h
Logged(h, raised) ==
    [fn |-> h.fn, args |-> h.args, result |-> h.result, raised |-> raised]

RECURSIVE run_swallow(_, _, _)
run_swallow(st, failAt, n) ==
    IF st = <<>> THEN [calls |-> <<>>, exc |-> "none"]
    ELSE LET h == Head(st) IN
         IF h.kind = "raise" THEN [calls |-> <<>>, exc |-> h.exc]
         ELSE LET m == IF IsMutation(h.fn) THEN n + 1 ELSE n IN
              IF h.result.t = "raise"
              THEN [calls |-> <<Logged(h, TRUE)>>, exc |-> "ValueError"]
              ELSE LET rest == run_swallow(Tail(st), failAt, m)
                   IN  [calls |-> <<Logged(h, IsMutation(h.fn) /\ m = failAt)>>
                                  \o rest.calls,
                        exc |-> rest.exc]

RECURSIVE run(_, _, _)
\* Python runs the steps in order; nothing in do() catches an exception, so
\* the first step that raises ends the invocation.  A lookup raises when the
\* environment says so; the failAt-th mutating call raises (none does if
\* failAt is 0); n counts the mutating calls made so far.
run(st, failAt, n) ==
    IF st = <<>> THEN [calls |-> <<>>, exc |-> "none"]
    ELSE LET h == Head(st) IN
         IF h.kind = "raise" THEN [calls |-> <<>>, exc |-> h.exc]
         ELSE LET m == IF IsMutation(h.fn) THEN n + 1 ELSE n IN
              IF h.result.t = "raise"
              THEN [calls |-> <<Logged(h, TRUE)>>, exc |-> "ValueError"]
              ELSE IF IsMutation(h.fn) /\ m = failAt
              THEN [calls |-> <<Logged(h, TRUE)>>, exc |-> "CollaboratorError"]
              ELSE LET rest == run(Tail(st), failAt, m)
                   IN  [calls |-> <<Logged(h, FALSE)>> \o rest.calls,
                        exc |-> rest.exc]

----------------------------------------------------------------------------
(* The events and handler definitions do() is run on.  The response body  *)
(* is a JSON object whose "detail", when present, is an object; option     *)
(* values are str, int, bool or None, the shapes a stored handler          *)
(* definition can hold.                                                    *)

\* spellings of each action name, and names that are no action
TokenrealmNames ==
    {SET_TOKENREALM,
     <<"S","e","t"," ","T","o","k","e","n","R","e","a","l","m">>}

DeleteNames ==
    {DELETE, <<"D","E","L","E","T","E">>, <<"D","e","l","e","t","e">>}

UnassignNames ==
    {UNASSIGN, <<"U","n","A","s","s","i","g","n">>}

DisableNames ==
    {DISABLE, <<"D","i","s","a","b","l","e">>}

EnableNames ==
    {ENABLE, <<"E","N","A","B","L","E">>}

DescriptionNames ==
    {SET_DESCRIPTION,
     <<"S","e","t"," ","D","e","s","c","r","i","p","t","i","o","n">>}

ValidityNames ==
    {SET_VALIDITY,
     <<"S","E","T"," ","V","A","L","I","D","I","T","Y">>}

CountwindowNames ==
    {SET_COUNTWINDOW,
     <<"s","e","t"," ","C","o","u","n","t","W","i","n","d","o","w">>}

TokeninfoNames ==
    {SET_TOKENINFO,
     <<"S","E","T"," ","T","O","K","E","N","I","N","F","O">>}

EnrollNames ==
    {INIT, <<"E","n","r","o","l","l">>, <<"E","N","R","O","L","L">>}

UnknownNames ==
    {<<"r","e","m","o","v","e">>, <<>>,
     <<"d","e","l","e","t","e"," ">>, <<"s","e","t","_","t","o","k","e","n","r","e","a","l","m">>,
     <<"i","n","i","t">>, <<"E","N","R","O","L">>}

TargetNames ==
    TokenrealmNames \cup DeleteNames \cup UnassignNames \cup DisableNames
    \cup EnableNames \cup DescriptionNames \cup ValidityNames
    \cup CountwindowNames \cup TokeninfoNames

ActionNames == TargetNames \cup EnrollNames \cup UnknownNames

\* a dict with the key absent, or the key set to one of the values
OptDicts(key, values) == {EmptyDict} \cup {key :> v : v \in values}

Merge(A, B) == {a @@ b : a \in A, b \in B}

SerialDicts(name) ==
    OptDicts("serial", {PyNone, PyStr(<<>>), PyStr(<<name>>)})

\* request.all_data
Requests == SerialDicts("A")

\* the response body: no detail, or a detail with or without a serial
Contents == {EmptyDict} \cup {"detail" :> d : d \in SerialDicts("B")}

\* the audit data
Audits == SerialDicts("C")

Realm1 == PyStr(<<"r","1">>)

TokenrealmOptions ==
    Merge(OptDicts("realm", {Realm1}),
          OptDicts("only_realm", {PyBool(TRUE), PyBool(FALSE)}))

DescriptionOptions == OptDicts("description", {PyStr(<<>>), PyStr(<<"d">>)})

CountwindowOptions ==
    OptDicts("count window",
             {PyStr(<<"1","0">>), PyStr(<<"7">>), PyStr(<<" ","5"," ">>),
              PyStr(<<"-","3">>), PyStr(<<"a","b","c">>), PyStr(<<>>),
              PyStr(<<"1","x">>), PyStr(<<"5","0","!">>), PyInt(20)})

TokeninfoOptions ==
    Merge(OptDicts("key", {PyStr(<<"k">>)}),
          OptDicts("value", {PyNone, PyStr(<<>>), PyStr(<<"v">>)}))

ValidityOptions ==
    Merge(OptDicts(START, {PyStr(<<>>), PyStr(<<"+","1","d">>)}),
          OptDicts(END, {PyStr(<<>>), PyStr(<<"+","2","d">>)}))

UserValues ==
    {PyStr(<<"1">>), PyInt(1), PyBool(TRUE), PyStr(<<"0">>), PyInt(0),
     PyBool(FALSE), PyStr(<<"t","r","u","e">>), PyStr(<<"T","r","u","e">>),
     PyInt(2), PyNone}

EnrollOptions ==
    Merge(OptDicts("user", UserValues),
          Merge(OptDicts("tokentype", {PyStr(<<"h","o","t","p">>)}),
                OptDicts("realm", {Realm1})))

\* a handler definition without options, or with the options of one action
HandlerDefs ==
    {EmptyDict} \cup
    {"options" :> o : o \in TokenrealmOptions \cup DescriptionOptions
                            \cup CountwindowOptions \cup TokeninfoOptions
                            \cup ValidityOptions \cup EnrollOptions}

----------------------------------------------------------------------------
(* TokenEventHandler.actions *)

\* realm_list = get_realms().keys()
realm_list == DOMAIN realms

\* get_token_types()
get_token_types == token_types

\* the dict built by the property from the two enumerations
actions_dict(rl, tt) ==
    (SET_TOKENREALM :>
        [realm |-> [type |-> "str", required |-> TRUE,
                    description |-> "set a new realm of the token",
                    value |-> rl],
         only_realm |-> [type |-> "bool",
                         description |-> "The new realm will be the only realm of the token."]])
    @@ (DELETE :> EmptyDict)
    @@ (UNASSIGN :> EmptyDict)
    @@ (DISABLE :> EmptyDict)
    @@ (ENABLE :> EmptyDict)
    @@ (INIT :>
        [tokentype |-> [type |-> "str", required |-> TRUE,
                        description |-> "Token type to create",
                        value |-> tt],
         user |-> [type |-> "bool",
                   description |-> "Assign token to user in request or tokenowner."],
         realm |-> [type |-> "str", required |-> FALSE,
                    description |-> "Set the realm of the newly created token.",
                    value |-> rl]])
    @@ (SET_DESCRIPTION :>
        [description |-> [type |-> "str",
                          description |-> "The new description of the token."]])
    @@ (SET_VALIDITY :>
        ((START :> [type |-> "str",
                    description |-> "The token will be valid starting at the given date."])
         @@ (END :> [type |-> "str",
                     description |-> "The token will be valid until the given date."])))
    @@ (SET_COUNTWINDOW :>
        ("count window" :> [type |-> "str", required |-> TRUE,
                            description |-> "Set the new count window of the token."]))
    @@ (SET_TOKENINFO :>
        [key |-> [type |-> "str", required |-> TRUE,
                  description |-> "Set this tokeninfo key."],
         value |-> [type |-> "str",
                    description |-> "Set the above key the this value."]])

actions_cached ==
    IF returned = EmptyDict THEN actions_dict(realm_list, get_token_types)
    ELSE returned

\* the value of the property: computed from the enumerations on every read
actions == actions_dict(realm_list, get_token_types)

----------------------------------------------------------------------------
(* Operations *)

RealmNames == {"realm1", "realm2", "realm3"}

TokenTypeNames == {"hotp", "totp", "spass"}

\* one invocation of do() on the event of this behaviour
Do ==
    /\ pc = "idle"
    /\ \E st \in steps(action, all_data, content, audit_data, handler_def) :
       \E failAt \in 0..Len(st) :
         LET r == run(st, failAt, 0)
         IN  /\ calls' = r.calls
             /\ exc' = r.exc
             /\ ret' = IF r.exc = "none" THEN "True" ELSE "raised"
    /\ pc' = "done"
    /\ UNCHANGED <<action, all_data, content, audit_data, handler_def>>
    /\ UNCHANGED catalogueVars

\* one read of the .actions property
ReadActions ==
    /\ returned' = actions
    /\ op' = "actions"
    /\ UNCHANGED <<realms, token_types>>
    /\ UNCHANGED dispatchVars

\* an administrator creates a realm: get_realms() has one more key
SetRealm ==
    /\ Cardinality(DOMAIN realms) < MaxRealms
    /\ \E name \in RealmNames \ DOMAIN realms :
         realms' = realms @@ (name :> [option |-> ""])
    /\ op' = "set_realm"
    /\ UNCHANGED <<token_types, returned>>
    /\ UNCHANGED dispatchVars

\* an administrator deletes a realm
DeleteRealm ==
    /\ \E name \in DOMAIN realms :
         realms' = [n \in DOMAIN realms \ {name} |-> realms[n]]
    /\ op' = "delete_realm"
    /\ UNCHANGED <<token_types, returned>>
    /\ UNCHANGED dispatchVars

\* a token type becomes available: get_token_types() has one more entry
AddTokenType ==
    /\ Cardinality(token_types) < MaxTokenTypes
    /\ \E name \in TokenTypeNames \ token_types :
         token_types' = token_types \cup {name}
    /\ op' = "add_token_type"
    /\ UNCHANGED <<realms, returned>>
    /\ UNCHANGED dispatchVars

\* a token type is no longer available
RemoveTokenType ==
    /\ \E name \in token_types : token_types' = token_types \ {name}
    /\ op' = "remove_token_type"
    /\ UNCHANGED <<realms, returned>>
    /\ UNCHANGED dispatchVars

NoCatalogue ==
    /\ realms = [n \in {} |-> n]
    /\ token_types = {}
    /\ returned = EmptyDict
    /\ op = "start"

\* an event arrives; do() has not run yet
Init ==
    /\ action \in ActionNames
    /\ all_data \in Requests
    /\ content \in Contents
    /\ audit_data \in Audits
    /\ handler_def \in HandlerDefs
    /\ pc = "idle"
    /\ calls = <<>>
    /\ ret = "pending"
    /\ exc = "none"
    /\ NoCatalogue

Next == Do

Spec == Init /\ [][Next]_vars

\* the configuration scenario: no event is dispatched
InitActions ==
    /\ action = <<>>
    /\ all_data = EmptyDict
    /\ content = EmptyDict
    /\ audit_data = EmptyDict
    /\ handler_def = EmptyDict
    /\ pc = "off"
    /\ calls = <<>>
    /\ ret = "pending"
    /\ exc = "none"
    /\ NoCatalogue

NextActions ==
    \/ ReadActions
    \/ SetRealm
    \/ DeleteRealm
    \/ AddTokenType
    \/ RemoveTokenType

SpecActions == InitActions /\ [][NextActions]_vars

----------------------------------------------------------------------------
(* Vocabulary of the properties, read off the event without using do() *)

Done == pc = "done"

\* the options the operator configured
Configured == IF "options" \in DOMAIN handler_def
              THEN handler_def["options"] ELSE EmptyDict

IsSet(key) == key \in DOMAIN Configured

\* a non-empty string
NonEmpty(v) == v.t = "str" /\ v.s # <<>>

\* the "serial" entry of a mapping, None if there is none
SerialIn(d) == IF "serial" \in DOMAIN d THEN d["serial"] ELSE PyNone

RequestSerial == SerialIn(all_data)

DetailSerial ==
    IF "detail" \in DOMAIN content THEN SerialIn(content["detail"])
    ELSE PyNone

AuditSerial == SerialIn(audit_data)

\* some source holds a non-empty serial
SerialFound ==
    NonEmpty(RequestSerial) \/ NonEmpty(DetailSerial) \/ NonEmpty(AuditSerial)

\* the serial of the highest-ranking source that holds a non-empty one
ExpectedSerial ==
    IF NonEmpty(RequestSerial) THEN RequestSerial
    ELSE IF NonEmpty(DetailSerial) THEN DetailSerial
    ELSE AuditSerial

MutatingFunctions ==
    {"set_realms", "remove_token", "enable_token", "unassign_token",
     "set_description", "set_count_window", "add_tokeninfo",
     "set_validity_period_start", "set_validity_period_end", "init_token"}

\* the number of token-changing calls do() issued
Mutations ==
    Cardinality({i \in DOMAIN calls : calls[i].fn \in MutatingFunctions})

\* the number of calls do() issued to fn
CallsTo(fn) == Cardinality({i \in DOMAIN calls : calls[i].fn = fn})

\* do() issued exactly this one call
OnlyCall(fn, args) ==
    /\ Len(calls) = 1
    /\ calls[1].fn = fn
    /\ calls[1].args = args

----------------------------------------------------------------------------
(* C1 *)

\* C1: for every target-requiring action and every handler configuration,
\* when the request data, the detail section of the response and the audit
\* data all hold no non-empty serial, do() issues no call to the token
\* library and returns True.
C1_NoSerialNoMutation ==
    (Done /\ action \in TargetNames /\ ~ SerialFound)
        => (calls = <<>> /\ ret = "True" /\ exc = "none")

\* set validity with both bounds configured and only empty serials around
C1_Witness ==
    /\ Done
    /\ action \in ValidityNames
    /\ IsSet(START) /\ NonEmpty(Configured[START])
    /\ IsSet(END) /\ NonEmpty(Configured[END])
    /\ RequestSerial = PyStr(<<>>)
    /\ DetailSerial = PyNone
    /\ "serial" \notin DOMAIN audit_data
    /\ calls = <<>>
    /\ ret = "True"

----------------------------------------------------------------------------
(* C2 *)

\* C2: the serial handed to the collaborator of a target-requiring action is
\* the request's if that is non-empty, else the one of the response's detail
\* section if that is non-empty, else the audit data's; every call do()
\* issues carries that serial, and delete issues its call whenever one of the
\* three sources holds a non-empty serial.
C2_SerialPrecedence ==
    (Done /\ action \in TargetNames)
        => /\ \A i \in DOMAIN calls :
                 calls[i].fn \in MutatingFunctions
                     => calls[i].args[1] = ExpectedSerial
           /\ (action \in DeleteNames /\ SerialFound) => calls # <<>>

\* the request has an empty serial, so the detail's wins over the audit's
C2_Witness ==
    /\ Done
    /\ action \in DeleteNames
    /\ RequestSerial = PyStr(<<>>)
    /\ DetailSerial = PyStr(<<"B">>)
    /\ AuditSerial = PyStr(<<"C">>)
    /\ calls # <<>>
    /\ calls[1].args[1] = PyStr(<<"B">>)

----------------------------------------------------------------------------
(* C3 *)

\* the number of validity bounds configured with a non-empty value
BoundsConfigured ==
    (IF IsSet(START) /\ Truthy(Configured[START]) THEN 1 ELSE 0)
    + (IF IsSet(END) /\ Truthy(Configured[END]) THEN 1 ELSE 0)

\* C3 as stated: an invocation with an action other than enroll issues at
\* most one token-changing call, whatever the options are.
C3_AtMostOneMutation ==
    (Done /\ action \notin EnrollNames) => Mutations <= 1

\* C3 as amended: an invocation with an action other than enroll and set
\* validity issues at most one token-changing call; set validity issues at
\* most one per configured bound, two when both bounds are configured, and
\* exactly that many when do() returns with a serial resolved.
C3_AtMostOnePerBound ==
    (Done /\ action \notin EnrollNames)
        => IF action \in ValidityNames
           THEN /\ Mutations <= BoundsConfigured
                /\ (ret = "True" /\ SerialFound)
                       => Mutations = BoundsConfigured
           ELSE Mutations <= 1

\* set validity with both bounds persisted in one invocation
C3_Witness ==
    /\ Done
    /\ action \in ValidityNames
    /\ ret = "True"
    /\ Mutations = 2
    /\ CallsTo("set_validity_period_start") = 1
    /\ CallsTo("set_validity_period_end") = 1

----------------------------------------------------------------------------
(* C4 *)

\* C4: set tokenrealm hands the only_realm flag on to set_realms: with
\* only_realm true the call is not additive (add is False), with only_realm
\* false or absent it is additive (add is True).
C4_OnlyRealmPassedOn ==
    (Done /\ action \in TokenrealmNames /\ SerialFound)
        => /\ Len(calls) = 1
           /\ calls[1].fn = "set_realms"
           /\ calls[1].args[3] =
                 PyBool(~ (IsSet("only_realm")
                           /\ Configured["only_realm"] = PyBool(TRUE)))

----------------------------------------------------------------------------
(* C5 *)

\* do() was asked to set both bounds, parse_date returned the start date
\* and persisting it raised
StartPersistFailed ==
    /\ Done
    /\ action \in ValidityNames
    /\ BoundsConfigured = 2
    /\ Len(calls) >= 2
    /\ calls[1].fn = "parse_date"
    /\ calls[1].args = <<Configured[START]>>
    /\ ~ calls[1].raised
    /\ calls[2].fn = "set_validity_period_start"
    /\ calls[2].raised

\* the end bound was resolved (parse_date was called for it)
EndResolved ==
    \E i \in DOMAIN calls :
        i > 2 /\ calls[i].fn = "parse_date"

EndPersisted ==
    \E i \in DOMAIN calls : calls[i].fn = "set_validity_period_end"

\* C5 as stated: when the start bound is parsed but persisting it fails, the
\* end bound is still resolved and persisted in the same invocation.
C5_EndSurvivesStartFailure ==
    StartPersistFailed => (EndResolved /\ EndPersisted)

\* C5 as amended: when the start bound is parsed but persisting it raises,
\* the exception leaves do() at once: the failed set_validity_period_start
\* is the last call of the invocation, the end bound is neither resolved nor
\* persisted and do() does not return True.
C5_StartFailureEndsCall ==
    StartPersistFailed
        => /\ Len(calls) = 2
           /\ ~ EndResolved
           /\ ~ EndPersisted
           /\ ret = "raised"
           /\ exc = "CollaboratorError"

C5_Witness == StartPersistFailed /\ ret = "raised"

----------------------------------------------------------------------------
(* C6 *)

\* the 'user' option is the string "1", the integer 1 or the boolean True
UserOptionSet ==
    /\ IsSet("user")
    /\ Configured["user"] \in {PyStr(<<"1">>), PyInt(1), PyBool(TRUE)}

\* the parameters enroll has to create the token with
ExpectedTokenParams ==
    PyDict(("type" :> (IF IsSet("tokentype") THEN Configured["tokentype"]
                       ELSE PyNone))
           @@ ("genkey" :> PyInt(1))
           @@ ("realm" :> (IF IsSet("realm") THEN Configured["realm"]
                           ELSE PyStr(<<>>))))

\* C6: enroll issues exactly one init_token call, with the configured
\* tokentype, genkey 1 and the configured realm (empty string if unset).
\* When 'user' is "1", 1 or True, do() first looks the token owner up from
\* the request and creates the token for the user that lookup returned, the
\* same lookup for all three forms; when 'user' is absent or anything else
\* there is no lookup and the token is created without an owner.
C6_EnrollOwner ==
    (Done /\ action \in EnrollNames)
        => /\ Mutations = 1
           /\ calls[Len(calls)].fn = "init_token"
           /\ calls[Len(calls)].args[1] = ExpectedTokenParams
           /\ UserOptionSet
                 => /\ Len(calls) = 2
                    /\ calls[1].fn = "_get_tokenowner"
                    /\ calls[1].args = <<[t |-> "request"]>>
                    /\ calls[1].result \in Owners
                    /\ calls[2].args[2] = calls[1].result
           /\ ~ UserOptionSet
                 => /\ Len(calls) = 1
                    /\ calls[1].args[2] = PyNone

\* the integer form of the flag: the token goes to the user of the request
C6_Witness ==
    /\ Done
    /\ action \in EnrollNames
    /\ action # INIT
    /\ IsSet("user") /\ Configured["user"] = PyInt(1)
    /\ Len(calls) = 2
    /\ calls[2].fn = "init_token"
    /\ calls[2].args[2] = [t |-> "user", login |-> "alice"]
    /\ ret = "True"

----------------------------------------------------------------------------
(* C7 *)

\* C7: for an action name that is none of the ten identifiers after
\* lower-casing, do() issues no call at all (no token change, no token
\* creation, no owner lookup) and returns True, with or without a serial.
C7_UnknownActionIgnored ==
    (Done /\ action \in UnknownNames)
        => (calls = <<>> /\ ret = "True" /\ exc = "none")

\* an unknown name on an event that carries a serial and enroll options
C7_Witness ==
    /\ Done
    /\ action \in UnknownNames
    /\ action # <<>>
    /\ NonEmpty(RequestSerial)
    /\ IsSet("user") /\ Configured["user"] = PyBool(TRUE)
    /\ calls = <<>>
    /\ ret = "True"

----------------------------------------------------------------------------
(* C8 *)

\* the strings that write an integer, with the integer they write
NumericStrings ==
    (<<"1","0">> :> 10) @@ (<<"7">> :> 7) @@ (<<" ","5"," ">> :> 5)
    @@ (<<"-","3">> :> (0 - 3))

\* C8: set countwindow with a resolved serial sets the count window to 50
\* when 'count window' is absent and to the integer written by a numeric
\* string; with a string that is not numeric the call fails with a
\* ValueError and no count window is set.
C8_CountWindow ==
    (Done /\ action \in CountwindowNames /\ SerialFound)
        => IF ~ IsSet("count window")
           THEN OnlyCall("set_count_window", <<ExpectedSerial, PyInt(50)>>)
           ELSE LET w == Configured["count window"] IN
                CASE w.t = "str" /\ w.s \in DOMAIN NumericStrings ->
                       OnlyCall("set_count_window",
                                <<ExpectedSerial, PyInt(NumericStrings[w.s])>>)
                  [] w.t = "str" /\ w.s \notin DOMAIN NumericStrings ->
                       /\ calls = <<>>
                       /\ ret = "raised"
                       /\ exc = "ValueError"
                  [] OTHER -> TRUE

\* a count window that starts with 50 but is no number
C8_Witness ==
    /\ Done
    /\ action \in CountwindowNames
    /\ SerialFound
    /\ IsSet("count window")
    /\ Configured["count window"] = PyStr(<<"5","0","!">>)
    /\ calls = <<>>
    /\ ret = "raised"

----------------------------------------------------------------------------
(* C9 *)

ConfiguredOr(key, default) ==
    IF IsSet(key) THEN Configured[key] ELSE default

\* C9: in any letter case, each of delete, disable, enable, unassign, set
\* description and set tokeninfo issues its own call on the resolved serial
\* and no other: remove_token; enable_token with False; enable_token with
\* True; unassign_token; set_description with the configured description
\* (empty string if unset); add_tokeninfo with the configured key and the
\* configured value (empty string if the value is absent or empty).
C9_OwnCollaborator ==
    (Done /\ SerialFound)
        => /\ action \in DeleteNames
                 => OnlyCall("remove_token", <<ExpectedSerial>>)
           /\ action \in DisableNames
                 => OnlyCall("enable_token", <<ExpectedSerial, PyBool(FALSE)>>)
           /\ action \in EnableNames
                 => OnlyCall("enable_token", <<ExpectedSerial, PyBool(TRUE)>>)
           /\ action \in UnassignNames
                 => OnlyCall("unassign_token", <<ExpectedSerial>>)
           /\ action \in DescriptionNames
                 => OnlyCall("set_description",
                             <<ExpectedSerial,
                               ConfiguredOr("description", PyStr(<<>>))>>)
           /\ action \in TokeninfoNames
                 => OnlyCall("add_tokeninfo",
                             <<ExpectedSerial, ConfiguredOr("key", PyNone),
                               IF NonEmpty(ConfiguredOr("value", PyNone))
                               THEN Configured["value"] ELSE PyStr(<<>>)>>)

\* "DELETE" in capitals removes the token named by the audit data
C9_Witness ==
    /\ Done
    /\ action = <<"D","E","L","E","T","E">>
    /\ ~ NonEmpty(RequestSerial)
    /\ ~ NonEmpty(DetailSerial)
    /\ OnlyCall("remove_token", <<PyStr(<<"C">>)>>)
    /\ ret = "True"

----------------------------------------------------------------------------
(* C10 *)

TenActions ==
    {SET_TOKENREALM, DELETE, UNASSIGN, DISABLE, ENABLE, INIT, SET_DESCRIPTION,
     SET_VALIDITY, SET_COUNTWINDOW, SET_TOKENINFO}

\* C10: whatever realm and token type changes came before it, every read of
\* the catalogue returns exactly the ten actions, with the allowed values of
\* set tokenrealm's realm, enroll's realm and enroll's tokentype equal to the
\* realms and token types that exist at that moment, and it changes neither
\* the realms nor the token types.
C10_CatalogueIsCurrent ==
    [][op' = "actions"
          => /\ realms' = realms
             /\ token_types' = token_types
             /\ DOMAIN returned' = TenActions
             /\ Cardinality(DOMAIN returned') = 10
             /\ returned'[SET_TOKENREALM].realm.value = DOMAIN realms
             /\ returned'[INIT].realm.value = DOMAIN realms
             /\ returned'[INIT].tokentype.value = token_types]_vars

\* a read that returns two realms and one token type: both were created
\* after the start, where a read returns empty lists
C10_Witness ==
    /\ op = "actions"
    /\ DOMAIN realms = {"realm2", "realm3"}
    /\ token_types = {"totp"}
    /\ returned[SET_TOKENREALM].realm.value = {"realm2", "realm3"}
    /\ returned[INIT].tokentype.value = {"totp"}

====
